---- MODULE Spec2Model ----
(***************************************************************************)
(* Model of qvm-template-upgrade.py: detection of a template's family and  *)
(* version, planning of the successor version, and the fail-fast sequence  *)
(* of commands issued through run_command.                                 *)
(*                                                                         *)
(* Text (stdout of a command, a version token) is a sequence of one-       *)
(* character strings, so that strip(), int() and the formatting of an      *)
(* integer are computed as Python computes them.  Names of templates are   *)
(* opaque strings; an optional name is <<>> (None) or <<name>>.            *)
(***************************************************************************)
EXTENDS Integers, Sequences, FiniteSets, TLC

VARIABLES pc, args_template, args_clone, args_new_template, issued,
          template_type, template_version, new_name, new_num, template,
          exit_code, error, reporter

vars == <<pc, args_template, args_clone, args_new_template, issued,
          template_type, template_version, new_name, new_num, template,
          exit_code, error, reporter>>

-----------------------------------------------------------------------------
(* Bounds of the model *)

\* numeric version tokens "0" .. MaxNum are among the probe outputs
MaxNum == 11

-----------------------------------------------------------------------------
(* Text *)

Digits == <<"0", "1", "2", "3", "4", "5", "6", "7", "8", "9">>

IsDigit(c) == \E i \in 1..10 : Digits[i] = c

DigitVal(c) == (CHOOSE i \in 1..10 : Digits[i] = c) - 1

Whitespace == {" ", "\n", "\t"}

RECURSIVE LStrip(_)
LStrip(s) == IF s = <<>> THEN s
             ELSE IF Head(s) \in Whitespace THEN LStrip(Tail(s)) ELSE s

RECURSIVE RStrip(_)
RStrip(s) == IF s = <<>> THEN s
             ELSE IF s[Len(s)] \in Whitespace
                  THEN RStrip(SubSeq(s, 1, Len(s) - 1)) ELSE s

\* str.strip()
Strip(s) == RStrip(LStrip(s))

\* the digits of int(): decimal digits, single underscores between digits
IsDigitString(s) ==
    /\ s /= <<>>
    /\ \A i \in 1..Len(s) :
          \/ IsDigit(s[i])
          \/ /\ s[i] = "_"
             /\ 1 < i /\ i < Len(s)
             /\ IsDigit(s[i - 1]) /\ IsDigit(s[i + 1])

RECURSIVE DigitsValue(_, _)
DigitsValue(s, acc) ==
    IF s = <<>> THEN acc
    ELSE IF Head(s) = "_" THEN DigitsValue(Tail(s), acc)
    ELSE DigitsValue(Tail(s), 10 * acc + DigitVal(Head(s)))

\* int(text): surrounding whitespace, an optional sign, then the digits;
\* ok = FALSE stands for the ValueError of an invalid literal
ParseInt(text) ==
    LET s    == Strip(text)
        sign == s /= <<>> /\ Head(s) \in {"+", "-"}
        body == IF sign THEN Tail(s) ELSE s
    IN  IF IsDigitString(body)
        THEN [ok |-> TRUE,
              val |-> IF sign /\ Head(s) = "-" THEN 0 - DigitsValue(body, 0)
                      ELSE DigitsValue(body, 0)]
        ELSE [ok |-> FALSE, val |-> 0]

RECURSIVE NatToStr(_)
NatToStr(n) == IF n < 10 THEN <<Digits[n + 1]>>
               ELSE NatToStr(n \div 10) \o <<Digits[(n % 10) + 1]>>

\* f"{n}" of an int
IntToStr(n) == IF n < 0 THEN <<"-">> \o NatToStr(0 - n) ELSE NatToStr(n)

\* f"{name}" of an optional name: None prints as "None"
NoName == <<>>

Str(name) == IF name = NoName THEN "None" ELSE name[1]

\* truth value of an optional name: None and "" are false
Truthy(name) == name /= NoName /\ name[1] /= ""

Line(s) == s \o <<"\n">>

unknown == <<"u", "n", "k", "n", "o", "w", "n">>
debian == <<"d", "e", "b", "i", "a", "n">>
fedora == <<"f", "e", "d", "o", "r", "a">>
arch == <<"a", "r", "c", "h">>
buster == <<"b", "u", "s", "t", "e", "r">>
bullseye == <<"b", "u", "l", "l", "s", "e", "y", "e">>
bookworm == <<"b", "o", "o", "k", "w", "o", "r", "m">>
trixie == <<"t", "r", "i", "x", "i", "e">>
fornextversion == <<"f", "o", "r", "n", "e", "x", "t", "v", "e", "r", "s", "i", "o", "n">>
sid == <<"s", "i", "d">>

-----------------------------------------------------------------------------
(* Inputs: the command line and what the external commands print *)

TemplateNames == {"tmpl"}

NewTemplateNames == {NoName, <<"">>, <<"tmpl-new">>}

\* stdout of `type qvm-ls`
TypeQvmLsOutputs == {<<>>, Line(<<"q", "v", "m", "-", "l", "s">>)}

\* stdout of a family probe
FamilyOutputs == {<<>>, Line(<<>>), Line(debian), Line(fedora), Line(arch),
                  Line(unknown)}

\* stdout of a version probe
VersionOutputs ==
    {<<>>, Line(<<>>), Line(unknown), Line(sid), <<"3", "x">>,
     Line(<<"-", "1">>), Line(<<"+", "7">>), Line(<<"0", "3", "8">>),
     Line(<<"3", "_", "8">>), Line(<<"3", "8">>), Line(<<"9", "9">>)}
    \cup {Line(c) : c \in {buster, bullseye, bookworm, trixie}}
    \cup {Line(IntToStr(n)) : n \in 0..MaxNum}

-----------------------------------------------------------------------------
(* run_command *)

\* one call of run_command: the program run, the environment it names, the
\* user it runs as, the clone destination, the sed tokens / the releasever,
\* the exit status and what the command printed (of a probe that returned)
Cmd(prog, target, user, dest, old, new, rc, stdout) ==
    [prog |-> prog, target |-> target, user |-> user, dest |-> dest,
     old |-> old, new |-> new, rc |-> rc, stdout |-> stdout]

ReturnCodes == {0, 1}

\* variant of Raise: handle_error prints the exception and returns, so the
\* process ends with status 0
Raise_NoExit(kind) ==
    /\ pc' = "exit"
    /\ exit_code' = 0
    /\ error' = kind
    /\ reporter' = "handle_error"

\* the except clause of main: the exception is printed by handle_error,
\* which exits 1
Raise(kind) ==
    /\ pc' = "exit"
    /\ exit_code' = 1
    /\ error' = kind
    /\ reporter' = "handle_error"

\* sys.exit(1) inside main: SystemExit is not an Exception, so the message
\* already printed on stderr is the only report
SysExit(kind) ==
    /\ pc' = "exit"
    /\ exit_code' = 1
    /\ error' = kind
    /\ reporter' = "stderr"

Running == UNCHANGED <<exit_code, error, reporter>>

\* run_command: a non-zero return code raises RuntimeError
CommandFailed(rc) == rc /= 0

\* variant of Stdout: the output is returned as printed, not stripped
Stdout_Unstripped(out) == out

\* run_command: return result.stdout.strip()
Stdout(out) == Strip(out)

\* the stdout kept in the log: nothing is read of a command that failed
Printed(rc, out) == IF CommandFailed(rc) THEN <<>> ELSE out

\* variant of Returned: a failed command is waited on before a retry that
\* never comes
Returned_Waiting(rc, next) ==
    IF CommandFailed(rc) THEN pc' = "retry_wait" /\ Running
    ELSE pc' = next /\ Running

\* variant of Returned: the return code is not looked at
Returned_Ignoring(rc, next) == pc' = next /\ Running

\* a run_command call outside any try of the callee: RuntimeError unwinds to
\* main, otherwise control goes on to the next statement
Returned(rc, next) ==
    IF CommandFailed(rc) THEN Raise("ExecutionError")
    ELSE pc' = next /\ Running

Args == <<args_template, args_clone, args_new_template>>

Detected == <<template_type, template_version>>

Planned == <<new_name, new_num>>

Init ==
    /\ pc = "check_qubes"
    /\ args_template \in TemplateNames
    /\ args_clone \in BOOLEAN
    /\ args_new_template \in NewTemplateNames
    /\ issued = <<>>
    /\ template_type = <<>>
    /\ template_version = <<>>
    /\ new_name = <<>>
    /\ new_num = <<>>
    /\ template = NoName
    /\ exit_code = -1
    /\ error = "none"
    /\ reporter = "none"

\* variant of CheckQubes: the result of the check is not tested
CheckQubes_Untested ==
    /\ pc = "check_qubes"
    /\ \E rc \in ReturnCodes, out \in TypeQvmLsOutputs :
         /\ issued' = Append(issued, Cmd("type qvm-ls", "dom0", "dom0", "",
                                        <<>>, <<>>, rc, Printed(rc, out)))
         /\ IF CommandFailed(rc) THEN Raise("ExecutionError")
            ELSE pc' = "get_type" /\ Running
    /\ UNCHANGED <<Args, Detected, Planned, template>>

\* main: if not run_command("type qvm-ls")
CheckQubes ==
    /\ pc = "check_qubes"
    /\ \E rc \in ReturnCodes, out \in TypeQvmLsOutputs :
         /\ issued' = Append(issued, Cmd("type qvm-ls", "dom0", "dom0", "",
                                        <<>>, <<>>, rc, Printed(rc, out)))
         /\ IF CommandFailed(rc) THEN Raise("ExecutionError")
            ELSE IF Stdout(out) = <<>> THEN SysExit("EnvironmentError")
            ELSE pc' = "get_type" /\ Running
    /\ UNCHANGED <<Args, Detected, Planned, template>>

-----------------------------------------------------------------------------
(* get_template_type *)

\* what a probe leaves in the local: the stripped stdout, or "unknown" when
\* run_command raised RuntimeError
ProbeValue(rc, out) == IF CommandFailed(rc) THEN unknown ELSE Stdout(out)

\* if not type or type == "unknown"
TypeUndetermined(type) == type = <<>> \/ type = unknown

\* the end of get_template_type and the assignment in main
ReturnType(type) ==
    IF TypeUndetermined(type)
    THEN Raise("DetectionError") /\ UNCHANGED template_type
    ELSE template_type' = type /\ pc' = "get_version" /\ Running

\* type = run_command(f"qvm-features {template} os-distribution")
GetTypeFeature ==
    /\ pc = "get_type"
    /\ \E rc \in ReturnCodes, out \in FamilyOutputs :
         /\ issued' = Append(issued, Cmd("qvm-features os-distribution",
                                        args_template, "dom0", "", <<>>, <<>>, rc,
                                        Printed(rc, out)))
         /\ IF ~CommandFailed(rc) /\ ProbeValue(rc, out) = <<>>
            THEN pc' = "get_type_fallback" /\ Running /\ UNCHANGED template_type
            ELSE ReturnType(ProbeValue(rc, out))
    /\ UNCHANGED <<Args, template_version, Planned, template>>

\* type = run_command(f"qvm-run -p {template} 'grep ^ID= /etc/os-release' | cut ...")
GetTypeFallback ==
    /\ pc = "get_type_fallback"
    /\ \E rc \in ReturnCodes, out \in FamilyOutputs :
         /\ issued' = Append(issued, Cmd("grep ^ID= /etc/os-release",
                                        args_template, "default", "", <<>>, <<>>,
                                        rc, Printed(rc, out)))
         /\ ReturnType(ProbeValue(rc, out))
    /\ UNCHANGED <<Args, template_version, Planned, template>>

-----------------------------------------------------------------------------
(* get_template_version *)

\* the four probes, in the order of the source
VersionProbes == <<"qvm-features os-version",
                   "grep -oP \\d+ /etc/fedora-release",
                   "grep ^VERSION_CODENAME= /etc/os-release",
                   "cat /etc/debian_version">>

VersionProbeUser == <<"dom0", "default", "default", "default">>

VersionProbePc == <<"get_version", "get_version_fedora_release",
                    "get_version_codename", "get_version_debian_version">>

\* if not version or version == "unknown"
VersionUndetermined(version) == version = <<>> \/ version = unknown

\* the end of get_template_version and the assignment in main
ReturnVersion(version) ==
    IF VersionUndetermined(version)
    THEN Raise("DetectionError") /\ UNCHANGED template_version
    ELSE template_version' = version /\ pc' = "dispatch" /\ Running

\* variant of FallsThrough: a probe that failed is skipped like an empty one
FallsThrough_OnFailure(rc, out) == CommandFailed(rc) \/ ProbeValue(rc, out) = <<>>

\* `if not version:` before the next probe: only an empty result of a probe
\* that returned lets the next probe run
FallsThrough(rc, out) == ~CommandFailed(rc) /\ ProbeValue(rc, out) = <<>>

\* probe k of get_template_version
VersionProbe(k) ==
    /\ pc = VersionProbePc[k]
    /\ \E rc \in ReturnCodes, out \in VersionOutputs :
         /\ issued' = Append(issued, Cmd(VersionProbes[k], args_template,
                                        VersionProbeUser[k], "", <<>>, <<>>, rc,
                                        Printed(rc, out)))
         /\ IF k < Len(VersionProbes) /\ FallsThrough(rc, out)
            THEN pc' = VersionProbePc[k + 1] /\ Running /\ UNCHANGED template_version
            ELSE ReturnVersion(ProbeValue(rc, out))
    /\ UNCHANGED <<Args, template_type, Planned, template>>

GetVersionFeature == VersionProbe(1)

GetVersionFedoraRelease == VersionProbe(2)

GetVersionCodename == VersionProbe(3)

GetVersionDebianVersion == VersionProbe(4)

-----------------------------------------------------------------------------
(* next_debian_version and the dispatch of main *)

versions == (buster :> bullseye) @@ (bullseye :> bookworm)
            @@ (bookworm :> trixie) @@ (trixie :> fornextversion)

\* variant of next_debian_version: a token absent from the table is its own
\* successor
next_debian_version_Same(current_version) ==
    IF current_version \in DOMAIN versions THEN versions[current_version]
    ELSE current_version

\* versions.get(current_version, "unknown")
next_debian_version(current_version) ==
    IF current_version \in DOMAIN versions THEN versions[current_version]
    ELSE unknown

\* variant of Branch: whatever is not debian is taken for fedora
Branch_ElseFedora(type) == IF type = debian THEN "debian" ELSE "fedora"

\* if template_type == "debian": ... elif template_type == "fedora": ... else
Branch(type) == IF type = debian THEN "debian"
                ELSE IF type = fedora THEN "fedora"
                ELSE "unsupported"

\* if clone and not new_template_name
CloneWithoutName(clone, new_template_name) == clone /\ ~Truthy(new_template_name)

\* main, debian branch: the successor, the check for "unknown", then the head
\* of upgrade_debian_template up to its first command
MainDebian ==
    /\ pc = "dispatch"
    /\ Branch(template_type) = "debian"
    /\ LET next == next_debian_version(template_version) IN
         /\ new_name' = next
         /\ IF next = unknown
            THEN Raise("PlanningError") /\ UNCHANGED template
            ELSE /\ template' = <<args_template>>
                 /\ IF CloneWithoutName(args_clone, args_new_template)
                    THEN Raise("ValidationError")
                    ELSE /\ pc' = IF args_clone THEN "debian_clone" ELSE "debian_start"
                         /\ Running
    /\ UNCHANGED <<Args, Detected, new_num, issued>>

\* variant of FedoraSuccessor: the successor is capped at a latest release
FedoraSuccessor_Capped(n) == IF n + 1 > 42 THEN 42 ELSE n + 1

\* new_num = int(current_num) + 1
FedoraSuccessor(n) == n + 1

\* variant of MainFedora: the clone decision is taken before the version is
\* converted, so a token int() rejects is found out after the clone
MainFedora_CloneFirst ==
    /\ pc = "dispatch"
    /\ Branch(template_type) = "fedora"
    /\ LET current_num == ParseInt(template_version) IN
         IF ~current_num.ok /\ ~args_clone
         THEN Raise("InvalidLiteral") /\ UNCHANGED <<new_num, template>>
         ELSE /\ new_num' = <<FedoraSuccessor(current_num.val)>>
              /\ template' = <<args_template>>
              /\ pc' = IF args_clone THEN "fedora_clone" ELSE "fedora_start"
              /\ Running
    /\ UNCHANGED <<Args, Detected, new_name, issued>>

\* main, fedora branch: the head of upgrade_fedora_template up to its first
\* command
MainFedora ==
    /\ pc = "dispatch"
    /\ Branch(template_type) = "fedora"
    /\ LET current_num == ParseInt(template_version) IN
         IF ~current_num.ok
         THEN Raise("InvalidLiteral") /\ UNCHANGED <<new_num, template>>
         ELSE /\ new_num' = <<FedoraSuccessor(current_num.val)>>
              /\ template' = <<args_template>>
              /\ pc' = IF args_clone THEN "fedora_clone" ELSE "fedora_start"
              /\ Running
    /\ UNCHANGED <<Args, Detected, new_name, issued>>

\* main, else branch: print the error and the usage, sys.exit(1)
MainUnsupported ==
    /\ pc = "dispatch"
    /\ Branch(template_type) = "unsupported"
    /\ SysExit("UnsupportedFamilyError")
    /\ UNCHANGED <<Args, Detected, Planned, template, issued>>

-----------------------------------------------------------------------------
(* upgrade_debian_template *)

\* run_command(f"qvm-clone {template} {new_template_name}")
\* template = new_template_name
Clone(next) ==
    \E rc \in ReturnCodes :
      /\ issued' = Append(issued, Cmd("qvm-clone", Str(template), "dom0",
                                     Str(args_new_template), <<>>, <<>>, rc, <<>>))
      /\ Returned(rc, next)
      /\ template' = IF CommandFailed(rc) THEN template ELSE args_new_template

\* a command of a phase that leaves every local alone
Phase(prog, user, old, new, next) ==
    /\ \E rc \in ReturnCodes :
         /\ issued' = Append(issued, Cmd(prog, Str(template), user, "", old, new,
                                        rc, <<>>))
         /\ Returned(rc, next)
    /\ UNCHANGED template

DebianClone ==
    /\ pc = "debian_clone"
    /\ Clone("debian_start")
    /\ UNCHANGED <<Args, Detected, Planned>>

\* run_command(f"qvm-start --skip-if-running {template}")
DebianStart ==
    /\ pc = "debian_start"
    /\ Phase("qvm-start --skip-if-running", "dom0", <<>>, <<>>, "debian_sed")
    /\ UNCHANGED <<Args, Detected, Planned>>

\* run_command(f"qvm-run -u root {template} 'sed -i s/{old_name}/{new_name}/g ...'")
DebianSed ==
    /\ pc = "debian_sed"
    /\ Phase("sed -i", "root", template_version, new_name, "debian_apt")
    /\ UNCHANGED <<Args, Detected, Planned>>

\* variant of DebianApt: the upgrade is followed by the shutdown, no trim
DebianApt_SkipsTrim ==
    /\ pc = "debian_apt"
    /\ Phase("apt full-upgrade", "root", <<>>, <<>>, "debian_shutdown")
    /\ UNCHANGED <<Args, Detected, Planned>>

\* run_command(f"qvm-run -p -u root {template} 'apt update && apt full-upgrade -y && ...'")
DebianApt ==
    /\ pc = "debian_apt"
    /\ Phase("apt full-upgrade", "root", <<>>, <<>>, "debian_fstrim")
    /\ UNCHANGED <<Args, Detected, Planned>>

\* run_command(f"qvm-run -u root {template} 'fstrim -av'")
DebianFstrim ==
    /\ pc = "debian_fstrim"
    /\ Phase("fstrim -av", "root", <<>>, <<>>, "debian_shutdown")
    /\ UNCHANGED <<Args, Detected, Planned>>

\* run_command(f"qvm-shutdown --wait {template}")
DebianShutdown ==
    /\ pc = "debian_shutdown"
    /\ Phase("qvm-shutdown --wait", "dom0", <<>>, <<>>, "post_install")
    /\ UNCHANGED <<Args, Detected, Planned>>

-----------------------------------------------------------------------------
(* upgrade_fedora_template *)

FedoraClone ==
    /\ pc = "fedora_clone"
    /\ Clone("fedora_start")
    /\ UNCHANGED <<Args, Detected, Planned>>

\* run_command(f"qvm-start --skip-if-running {template}")
FedoraStart ==
    /\ pc = "fedora_start"
    /\ Phase("qvm-start --skip-if-running", "dom0", <<>>, <<>>, "fedora_dnf")
    /\ UNCHANGED <<Args, Detected, Planned>>

\* variant of FedoraDnf: the distro-sync is followed by the Debian trim
FedoraDnf_ThenTrim ==
    /\ pc = "fedora_dnf"
    /\ Phase("dnf distro-sync", "root", <<>>, IntToStr(new_num[1]), "debian_fstrim")
    /\ UNCHANGED <<Args, Detected, Planned>>

\* run_command(f"qvm-run -p -u root {template} 'dnf clean all &&
\*   dnf --releasever={new_num} distro-sync ... && dnf update -y && dnf upgrade -y'")
FedoraDnf ==
    /\ pc = "fedora_dnf"
    /\ Phase("dnf distro-sync", "root", <<>>, IntToStr(new_num[1]), "fedora_shutdown")
    /\ UNCHANGED <<Args, Detected, Planned>>

\* run_command(f"qvm-shutdown --wait {template}")
FedoraShutdown ==
    /\ pc = "fedora_shutdown"
    /\ Phase("qvm-shutdown --wait", "dom0", <<>>, <<>>, "post_install")
    /\ UNCHANGED <<Args, Detected, Planned>>

-----------------------------------------------------------------------------
(* change_qvm_features, then the end of main *)

\* the environment change_qvm_features is called on: main passes args.template
PostInstallTarget == args_template

\* variant of ChangeQvmFeatures: the hook is run without -u root
ChangeQvmFeatures_Unprivileged ==
    /\ pc = "post_install"
    /\ \E rc \in ReturnCodes :
         /\ issued' = Append(issued, Cmd("qubes.PostInstall", args_template,
                                        "default", "", <<>>, <<>>, rc, <<>>))
         /\ IF CommandFailed(rc) THEN Raise("ExecutionError")
            ELSE /\ pc' = "exit"
                 /\ exit_code' = 0
                 /\ UNCHANGED <<error, reporter>>
    /\ UNCHANGED <<Args, Detected, Planned, template>>

\* run_command(f"qvm-run -u root {template} qubes.PostInstall"); main then
\* returns and the process exits 0
ChangeQvmFeatures ==
    /\ pc = "post_install"
    /\ \E rc \in ReturnCodes :
         /\ issued' = Append(issued, Cmd("qubes.PostInstall", PostInstallTarget,
                                        "root", "", <<>>, <<>>, rc, <<>>))
         /\ IF CommandFailed(rc) THEN Raise("ExecutionError")
            ELSE /\ pc' = "exit"
                 /\ exit_code' = 0
                 /\ UNCHANGED <<error, reporter>>
    /\ UNCHANGED <<Args, Detected, Planned, template>>

Next ==
    \/ CheckQubes
    \/ GetTypeFeature
    \/ GetTypeFallback
    \/ GetVersionFeature
    \/ GetVersionFedoraRelease
    \/ GetVersionCodename
    \/ GetVersionDebianVersion
    \/ MainDebian
    \/ MainFedora
    \/ MainUnsupported
    \/ DebianClone
    \/ DebianStart
    \/ DebianSed
    \/ DebianApt
    \/ DebianFstrim
    \/ DebianShutdown
    \/ FedoraClone
    \/ FedoraStart
    \/ FedoraDnf
    \/ FedoraShutdown
    \/ ChangeQvmFeatures

Spec == Init /\ [][Next]_vars

-----------------------------------------------------------------------------
(* Vocabulary of the properties *)

TypeOK ==
    /\ pc \in {"check_qubes", "get_type", "get_type_fallback", "dispatch",
               "debian_clone", "debian_start", "debian_sed", "debian_apt",
               "debian_fstrim", "debian_shutdown", "fedora_clone",
               "fedora_start", "fedora_dnf", "fedora_shutdown",
               "post_install", "exit"}
          \cup {VersionProbePc[k] : k \in 1..4}
    /\ exit_code \in {-1, 0, 1}
    /\ (pc = "exit") = (exit_code /= -1)

\* the commands with side effects, by phase
CloneProg == "qvm-clone"
StartProg == "qvm-start --skip-if-running"
RewriteProg == "sed -i"
UpgradeProg == "apt full-upgrade"
TrimProg == "fstrim -av"
DistroSyncProg == "dnf distro-sync"
ShutdownProg == "qvm-shutdown --wait"
PostInstallProg == "qubes.PostInstall"

PhaseProgs == {CloneProg, StartProg, RewriteProg, UpgradeProg, TrimProg,
               DistroSyncProg, ShutdownProg, PostInstallProg}

IsPhase(c) == c.prog \in PhaseProgs

\* the phase commands issued so far, in order
PhaseLog == SelectSeq(issued, IsPhase)

ProgsOf(log) == [i \in 1..Len(log) |-> log[i].prog]

IsPrefix(s, t) == Len(s) <= Len(t) /\ s = SubSeq(t, 1, Len(s))

CloneStep == IF args_clone THEN <<CloneProg>> ELSE <<>>

\* the two sequences of section 4.3
DebianSequence == CloneStep \o <<StartProg, RewriteProg, UpgradeProg, TrimProg,
                                 ShutdownProg, PostInstallProg>>

FedoraSequence == CloneStep \o <<StartProg, DistroSyncProg, ShutdownProg,
                                 PostInstallProg>>

FamilySequence == IF template_type = debian THEN DebianSequence
                  ELSE IF template_type = fedora THEN FedoraSequence
                  ELSE <<>>

AllSucceeded == \A i \in 1..Len(issued) : issued[i].rc = 0

Terminated == pc = "exit"

-----------------------------------------------------------------------------
(* C1 *)

\* C1: fail-fast.  If the command of phase k exits non-zero it is the last
\* command of the run: the phase commands issued are exactly the first k of
\* the family's sequence (no later phase, no retry, no compensating command)
\* and the run has ended with exit status 1.
C1_FailFast ==
    \A i \in 1..Len(issued) :
       (IsPhase(issued[i]) /\ issued[i].rc /= 0) =>
          /\ i = Len(issued)
          /\ Terminated /\ exit_code = 1
          /\ IsPrefix(ProgsOf(PhaseLog), FamilySequence)
          /\ \A j \in 1..Len(PhaseLog) - 1 : PhaseLog[j].rc = 0

\* a phase in the middle of the Debian sequence failed and the run is over
C1_Witness ==
    /\ Terminated
    /\ Len(PhaseLog) = 4
    /\ PhaseLog[4].prog = TrimProg /\ PhaseLog[4].rc /= 0

-----------------------------------------------------------------------------
(* C2 *)

\* detection and planning both produced a result
PlanningSucceeded ==
    \/ template_type = debian /\ new_name \notin {<<>>, unknown}
    \/ template_type = fedora /\ new_num /= <<>>

\* C2: in both families a run with clone requested and no new-template name
\* issues no command with side effects, and a run that got as far as the
\* clone decision has ended in the validation error.
C2_CloneNeedsName ==
    (args_clone /\ ~Truthy(args_new_template)) =>
        /\ PhaseLog = <<>>
        /\ (Terminated /\ PlanningSucceeded) => error = "ValidationError"

-----------------------------------------------------------------------------
(* C3 *)

\* C3: when clone is requested with a new name, the clone is the first phase
\* command (so it precedes start) and every phase command after it targets
\* the new name, none the original template.
C3_AfterCloneTargetsNewName ==
    (args_clone /\ Truthy(args_new_template) /\ PhaseLog /= <<>>) =>
        /\ PhaseLog[1].prog = CloneProg
        /\ PhaseLog[1].target = args_template
        /\ PhaseLog[1].dest = args_new_template[1]
        /\ \A i \in 2..Len(PhaseLog) :
              /\ PhaseLog[i].prog /= CloneProg
              /\ PhaseLog[i].target = args_new_template[1]
              /\ PhaseLog[i].target /= args_template

-----------------------------------------------------------------------------
(* C4 *)

\* the succession table as documented: every entry but the last has a
\* successor, the last one has none
DocumentedSuccessor == (buster :> bullseye) @@ (bullseye :> bookworm)
                       @@ (bookworm :> trixie)

\* main has taken the debian branch and computed the successor
DebianPlanned == template_type = debian /\ new_name /= <<>>

\* C4: for every codename of the table but the last, planning returns the
\* documented successor; for the last entry and for a token absent from the
\* table it returns "unknown" and the run ends in the planning error with no
\* command with side effects issued.
C4_DebianPlanning ==
    DebianPlanned =>
        IF template_version \in DOMAIN DocumentedSuccessor
        THEN new_name = DocumentedSuccessor[template_version]
        ELSE /\ new_name = unknown
             /\ Terminated /\ exit_code = 1 /\ error = "PlanningError"
             /\ PhaseLog = <<>>

-----------------------------------------------------------------------------
(* C5 *)

\* main has taken the fedora branch and computed the successor
FedoraPlanned == template_type = fedora /\ new_num /= <<>>

\* C5: for a detected numeric version N the target release is N + 1,
\* whatever N is, and the distro-sync command carries the decimal numeral of
\* N + 1 as its releasever.
C5_FedoraPlanning ==
    /\ (template_type = fedora /\ ParseInt(template_version).ok
        /\ pc \notin {"dispatch"}) =>
           new_num = <<ParseInt(template_version).val + 1>>
    /\ \A i \in 1..Len(issued) :
          issued[i].prog = DistroSyncProg =>
             /\ ParseInt(template_version).ok
             /\ ParseInt(issued[i].new).ok
             /\ ParseInt(issued[i].new).val = ParseInt(template_version).val + 1
             /\ issued[i].new = IntToStr(ParseInt(template_version).val + 1)

\* distro-sync was issued for release 99, which takes the numeral to three
\* digits
C5_Witness ==
    /\ template_version = <<"9", "9">>
    /\ \E i \in 1..Len(issued) :
          issued[i].prog = DistroSyncProg /\ issued[i].new = <<"1", "0", "0">>

-----------------------------------------------------------------------------
(* C6 *)

\* what a phase command is and acts on
View(c) == <<c.prog, c.target, c.old, c.new>>

ViewsOf(log) == [i \in 1..Len(log) |-> View(log[i])]

\* every phase command comes after every detection command
PhasesFollowDetection ==
    \A i, j \in 1..Len(issued) :
       (IsPhase(issued[i]) /\ ~IsPhase(issued[j])) => j < i

\* C6: a Debian run without clone in which every command succeeds and the
\* detected codename has a planned successor issues, after detection, exactly
\* start, the rewrite of the detected token into its successor, the package
\* upgrade, trim, shutdown and post-install, once each and in this order, all
\* on the template, and exits 0.
C6_DebianRun ==
    (/\ Terminated /\ AllSucceeded
     /\ template_type = debian /\ ~args_clone
     /\ new_name \notin {<<>>, unknown}) =>
        /\ exit_code = 0
        /\ PhasesFollowDetection
        /\ ViewsOf(PhaseLog) =
              << <<StartProg, args_template, <<>>, <<>> >>,
                 <<RewriteProg, args_template, template_version, new_name>>,
                 <<UpgradeProg, args_template, <<>>, <<>> >>,
                 <<TrimProg, args_template, <<>>, <<>> >>,
                 <<ShutdownProg, args_template, <<>>, <<>> >>,
                 <<PostInstallProg, args_template, <<>>, <<>> >> >>
        /\ template_version \in DOMAIN DocumentedSuccessor =>
              new_name = DocumentedSuccessor[template_version]

\* scenario A: bullseye, no clone, every command succeeded
C6_Witness ==
    /\ Terminated /\ AllSucceeded /\ exit_code = 0
    /\ template_type = debian /\ ~args_clone
    /\ template_version = bullseye
    /\ Len(PhaseLog) = 6
    /\ PhaseLog[2].new = bookworm

-----------------------------------------------------------------------------
(* C7 *)

DebianOnlyProgs == {RewriteProg, UpgradeProg, TrimProg}

\* C7: a Fedora run in which every command succeeds and the detected version
\* is a number executes exactly [Clone if requested], Start, DistroSync,
\* Shutdown, PostInstall, once each and in this order, and exits 0; no run
\* outside the Debian branch issues RewriteRepositories, PackageUpgrade or
\* Trim, and no run outside the Fedora branch issues DistroSync.
C7_FedoraRun ==
    /\ (/\ Terminated /\ AllSucceeded
        /\ template_type = fedora /\ new_num /= <<>>) =>
           /\ exit_code = 0
           /\ PhasesFollowDetection
           /\ ProgsOf(PhaseLog) = FedoraSequence
    /\ \A i \in 1..Len(issued) :
          /\ issued[i].prog \in DebianOnlyProgs => template_type = debian
          /\ issued[i].prog = DistroSyncProg => template_type = fedora

\* a Fedora run with clone went through its five phases
C7_Witness ==
    /\ Terminated /\ AllSucceeded /\ exit_code = 0
    /\ template_type = fedora /\ args_clone
    /\ Len(PhaseLog) = 5
    /\ PhaseLog[3].prog = DistroSyncProg

-----------------------------------------------------------------------------
(* C8 *)

-----------------------------------------------------------------------------
(* C9 *)

FamilyProbeProgs == {"qvm-features os-distribution", "grep ^ID= /etc/os-release"}

VersionProbeProgs == {VersionProbes[k] : k \in 1..Len(VersionProbes)}

IsProbe(c) == c.prog \in FamilyProbeProgs \cup VersionProbeProgs

\* the detection probes issued so far, in order
ProbeLog == SelectSeq(issued, IsProbe)

\* the probe exited 0 and printed nothing but white space
ReturnedEmpty(c) == c.rc = 0 /\ Strip(c.stdout) = <<>>

\* C9: when every detection probe returns empty, no command with side
\* effects is issued and the run ends in the detection error with exit
\* status 1.
C9_EmptyDetection ==
    (/\ ProbeLog /= <<>>
     /\ \A i \in 1..Len(ProbeLog) : ReturnedEmpty(ProbeLog[i])) =>
        /\ PhaseLog = <<>>
        /\ Terminated => (error = "DetectionError" /\ exit_code = 1)
        /\ template_type = <<>> /\ template_version = <<>>

\* scenario C: both family probes printed an empty line, the run is over
C9_Witness ==
    /\ Terminated
    /\ Len(ProbeLog) = 2
    /\ \A i \in 1..2 : ReturnedEmpty(ProbeLog[i])
    /\ ProbeLog[1].stdout = <<"\n">>
    /\ error = "DetectionError"

-----------------------------------------------------------------------------
(* C10 *)

\* the version probes issued so far, in order
VersionLog == SelectSeq(issued, LAMBDA c : c.prog \in VersionProbeProgs)

\* a result get_template_version may return: printed by a probe that exited
\* 0, not empty and not "unknown"
Usable(c) == c.rc = 0 /\ Strip(c.stdout) \notin {<<>>, unknown}

\* C10: the four probes run in the order of the source; a probe that is
\* empty, prints "unknown" or fails hands over to the next probe; the
\* version is the first usable result; the detection error of the version is
\* raised only after all four probes were tried and none was usable.
C10_VersionFallback ==
    LET n == Len(VersionLog) IN
    /\ \A i \in 1..n : VersionLog[i].prog = VersionProbes[i]
    /\ \A i \in 1..n - 1 : ~Usable(VersionLog[i])
    /\ template_version /= <<>> =>
          (n > 0 /\ Usable(VersionLog[n])
           /\ template_version = Strip(VersionLog[n].stdout))
    /\ (n > 0 /\ n < Len(VersionProbes) /\ ~Usable(VersionLog[n])) =>
          pc = VersionProbePc[n + 1]
    /\ (n > 0 /\ error = "DetectionError") =>
          (n = Len(VersionProbes) /\ \A i \in 1..n : ~Usable(VersionLog[i]))

-----------------------------------------------------------------------------
(* C11 *)

\* the family probes issued so far, in order
FamilyLog == SelectSeq(issued, LAMBDA c : c.prog \in FamilyProbeProgs)

\* the probe gave no result: it failed or printed nothing but white space
YieldsNothing(c) == c.rc /= 0 \/ Strip(c.stdout) = <<>>

\* get_template_type raised: a detection error before any version probe
FamilyDetectionError == error = "DetectionError" /\ VersionLog = <<>>

\* C11: the feature tag is queried first and is the family when it is not
\* empty; the ID= probe is issued only after an empty feature tag; the
\* detection error of the family is raised if and only if both probes were
\* tried and both yielded nothing.
C11_FamilyFallback ==
    LET n == Len(FamilyLog) IN
    /\ n <= 2
    /\ n >= 1 => FamilyLog[1].prog = "qvm-features os-distribution"
    /\ n = 2 => /\ FamilyLog[2].prog = "grep ^ID= /etc/os-release"
                /\ ReturnedEmpty(FamilyLog[1])
    /\ (n >= 1 /\ ~YieldsNothing(FamilyLog[1])) =>
          (n = 1 /\ template_type = Strip(FamilyLog[1].stdout))
    /\ FamilyDetectionError <=>
          (n = 2 /\ YieldsNothing(FamilyLog[1]) /\ YieldsNothing(FamilyLog[2]))

-----------------------------------------------------------------------------
(* C12 *)

\* every phase of the family's sequence, post-install included, was issued
\* once and succeeded
SequenceCompleted ==
    /\ template_type \in {debian, fedora}
    /\ ProgsOf(PhaseLog) = FamilySequence
    /\ AllSucceeded

ErrorKinds == {"DetectionError", "PlanningError", "ValidationError",
               "ExecutionError", "UnsupportedFamilyError", "EnvironmentError",
               "InvalidLiteral"}

\* the errors that end main by sys.exit(1) without passing the except clause
DirectExitKinds == {"UnsupportedFamilyError", "EnvironmentError"}

\* exit 0 only after the complete sequence, exit 1 on every error
ExitStatusRule ==
    /\ exit_code = 0 => (SequenceCompleted /\ error = "none")
    /\ error /= "none" => (Terminated /\ exit_code = 1 /\ error \in ErrorKinds)
    /\ Terminated => (exit_code \in {0, 1} /\ (exit_code = 1 <=> error /= "none"))

\* C12 as stated: exit 0 only after the complete sequence; every error ends
\* the run with exit status 1 and is reported by the top-level handler.
C12_ExitThroughHandler ==
    /\ ExitStatusRule
    /\ error /= "none" => reporter = "handle_error"

\* C12 amended: exit 0 only after the complete sequence; every error ends
\* the run with exit status 1; detection, planning, validation and execution
\* errors are reported by the top-level handler, while the unsupported family
\* and the empty result of the management-interface check exit directly.
C12_ExitStatus ==
    /\ ExitStatusRule
    /\ error \in ErrorKinds \ DirectExitKinds => reporter = "handle_error"
    /\ error \in DirectExitKinds => reporter = "stderr"
    /\ error = "none" => reporter = "none"

\* scenario D ended the run directly, without the handler
C12_Witness ==
    /\ Terminated
    /\ error = "UnsupportedFamilyError" /\ reporter = "stderr" /\ exit_code = 1

-----------------------------------------------------------------------------
(* C13 *)

\* C13: whenever a command with side effects has been issued, the target
\* version of the run is defined, is not "unknown" and differs from the
\* detected version: the table successor on the debian branch, the number
\* after the detected one on the fedora branch.
C13_TargetVersion ==
    PhaseLog /= <<>> =>
        /\ template_version /= <<>>
        /\ template_type = debian =>
              /\ new_name \notin {<<>>, unknown}
              /\ new_name /= template_version
              /\ template_version \in DOMAIN versions
              /\ new_name = versions[template_version]
        /\ template_type = fedora =>
              /\ new_num /= <<>>
              /\ ParseInt(template_version).ok
              /\ new_num[1] = ParseInt(template_version).val + 1
              /\ new_num[1] /= ParseInt(template_version).val
              /\ IntToStr(new_num[1]) \notin {template_version, unknown}

\* phase commands were issued for buster and its successor
C13_Witness ==
    /\ Len(PhaseLog) >= 2
    /\ template_type = debian
    /\ template_version = buster /\ new_name = bullseye
    /\ PhaseLog[2].prog = RewriteProg

-----------------------------------------------------------------------------
(* C14 *)

\* the phase commands run inside the environment as root
RootProgs == {RewriteProg, UpgradeProg, TrimProg, DistroSyncProg}

\* C14 as stated: RewriteRepositories, PackageUpgrade, Trim and DistroSync
\* are issued as root, PostInstall as the default user.
C14_PostInstallUnprivileged ==
    \A i \in 1..Len(issued) :
       /\ issued[i].prog \in RootProgs => issued[i].user = "root"
       /\ issued[i].prog = PostInstallProg => issued[i].user = "default"

\* C14 amended: RewriteRepositories, PackageUpgrade, Trim, DistroSync and
\* PostInstall are all issued as root inside the environment.
C14_Privileges ==
    \A i \in 1..Len(issued) :
       issued[i].prog \in RootProgs \cup {PostInstallProg} =>
          issued[i].user = "root"

\* a Debian run went through trim and issued post-install as root
C14_Witness ==
    /\ template_type = debian
    /\ Len(PhaseLog) >= 6
    /\ PhaseLog[Len(PhaseLog)].prog = PostInstallProg
    /\ PhaseLog[Len(PhaseLog)].user = "root"
    /\ \E i \in 1..Len(PhaseLog) : PhaseLog[i].prog = TrimProg

-----------------------------------------------------------------------------
(* C15 *)

\* every external command returns: a step that can be taken is taken
FairSpec == Spec /\ WF_vars(Next)

\* C15: every run reaches a terminal outcome, exit 0 or exit 1, and once it
\* has, no further command is issued and the outcome does not change.
C15_Termination ==
    /\ <>(Terminated /\ exit_code \in {0, 1})
    /\ [][Terminated => (Terminated' /\ issued' = issued
                         /\ exit_code' = exit_code /\ error' = error)]_vars

\* both outcomes are reached: this one is Done, C1_Witness is a Failed one
C15_Witness ==
    /\ Terminated /\ exit_code = 0
    /\ Len(PhaseLog) >= 4

-----------------------------------------------------------------------------
(* C16 *)

\* C16: a detection probe that exits non-zero is the last command of the
\* run: no further probe and no command with side effects is issued, the
\* attribute is left undetermined, and the run ends with exit status 1 in the
\* detection error raised by the detector, not in the probe's own failure.
C16_FailedProbe ==
    \A i \in 1..Len(issued) :
       (IsProbe(issued[i]) /\ issued[i].rc /= 0) =>
          /\ i = Len(issued)
          /\ PhaseLog = <<>>
          /\ Terminated /\ exit_code = 1
          /\ error = "DetectionError" /\ reporter = "handle_error"
          /\ issued[i].prog \in FamilyProbeProgs => template_type = <<>>
          /\ issued[i].prog \in VersionProbeProgs => template_version = <<>>

\* the second version probe failed after an empty feature tag
C16_Witness ==
    /\ Terminated
    /\ Len(VersionLog) = 2
    /\ VersionLog[2].rc /= 0
    /\ ReturnedEmpty(VersionLog[1])
    /\ error = "DetectionError"

-----------------------------------------------------------------------------
(* C17 *)

\* main took the fedora branch with a version token that int() rejects
FedoraNotNumeric ==
    /\ template_type = fedora
    /\ template_version /= <<>>
    /\ ~ParseInt(template_version).ok
    /\ pc /= "dispatch"

\* C17: a Fedora run whose detected version token is not a decimal integer
\* ends with exit status 1 and issues no command with side effects, not even
\* the clone when clone was requested: no successor is planned.
C17_FedoraNotNumeric ==
    FedoraNotNumeric =>
        /\ Terminated /\ exit_code = 1
        /\ error = "InvalidLiteral" /\ reporter = "handle_error"
        /\ new_num = <<>>
        /\ PhaseLog = <<>>

\* clone was requested with a name and the version token was "3x"
C17_Witness ==
    /\ FedoraNotNumeric /\ Terminated
    /\ args_clone /\ Truthy(args_new_template)
    /\ template_version = <<"3", "x">>

-----------------------------------------------------------------------------
(* C18 *)

CheckProg == "type qvm-ls"

\* the check did not pass: the command failed or printed nothing
CheckFailed(c) == c.rc /= 0 \/ Strip(c.stdout) = <<>>

\* C18: the management-interface check is the first command of every run
\* and is issued once; when it fails the run ends with exit status 1 and
\* neither a detection probe nor a command with side effects is ever issued.
C18_CheckFirst ==
    /\ issued /= <<>> =>
          /\ issued[1].prog = CheckProg
          /\ \A i \in 2..Len(issued) : issued[i].prog /= CheckProg
          /\ CheckFailed(issued[1]) =>
                /\ Len(issued) = 1
                /\ Terminated /\ exit_code = 1
                /\ error \in {"ExecutionError", "EnvironmentError"}
    /\ issued = <<>> => pc = "check_qubes"

\* the check printed nothing and the run ended there
C18_Witness ==
    /\ Terminated
    /\ Len(issued) = 1
    /\ issued[1].rc = 0 /\ Strip(issued[1].stdout) = <<>>
    /\ error = "EnvironmentError"

====
